---- MODULE Spec2Model ----
(***************************************************************************)
(* Model of src/autosize.js: a classic script that defines _adjust twice,  *)
(* assigns the global onload twice, and at load starts a ResizeObserver    *)
(* whose callback measures the document and forwards the result with       *)
(* _rpc_adjustWindowToContent.                                             *)
(*                                                                         *)
(* Numbers are JavaScript numbers restricted to integers (sums of integers *)
(* are exact in doubles) plus NaN; a number is the record                  *)
(* [nan |-> BOOLEAN, v |-> Int].  Strings handed to parseFloat are         *)
(* sequences of one-character strings.                                     *)
(***************************************************************************)
EXTENDS Integers, Sequences, FiniteSets, TLC

\* ------------------------------------------------------------- bounds ---
MaxSize == 1          \* element dimensions range over 0..MaxSize
MaxCalls == 2         \* layout changes and render passes stop once this many calls exist

Sizes == 0 .. MaxSize

VARIABLES
    scriptpc,         \* position of the script's evaluation
    adjust,           \* which declaration the global name _adjust is bound to
    onload,           \* value of the global onload property
    loaded,           \* the load event has been dispatched
    observers,        \* ResizeObservers created so far, each a sequence of observations
    rootW, rootH,     \* document.documentElement offsetWidth / offsetHeight
    bodyW, bodyH,     \* document.body content box (what a ResizeObserver compares)
    bodyStyle,        \* getComputedStyle(document.body): the four properties _adjust reads
    pending,          \* observers whose callback the current render pass still has to call
    pc,               \* "Idle" or "Measuring" (inside _adjust, before the forwarding call)
    callee,           \* which _adjust body is executing ("none" when idle)
    width, height,    \* the locals of the executing _adjust
    calls,            \* log of the _rpc_adjustWindowToContent calls, oldest first
    handled,          \* history: root offset size read while handling the i-th notification
    settled,          \* history: a render pass has run since the last layout change / load
    bodyChangedSinceLoad, \* history: the body's box changed after load
    rootUnreported    \* history: the root's box changed after load and nothing measured it since

vars == <<scriptpc, adjust, onload, loaded, observers, rootW, rootH, bodyW, bodyH,
          bodyStyle, pending, pc, callee, width, height, calls, handled, settled,
          bodyChangedSinceLoad, rootUnreported>>

\* ------------------------------------------------------------ numbers ---
Num(n) == [nan |-> FALSE, v |-> n]
NaN == [nan |-> TRUE, v |-> 0]

\* variant of Add that reads a NaN operand as 0
AddNaNAsZero(a, b) == Num((IF a.nan THEN 0 ELSE a.v) + (IF b.nan THEN 0 ELSE b.v))

\* JavaScript + on numbers: NaN is absorbing
Add(a, b) == IF a.nan \/ b.nan THEN NaN ELSE Num(a.v + b.v)

\* JavaScript * on numbers
Mul(a, b) == IF a.nan \/ b.nan THEN NaN ELSE Num(a.v * b.v)

\* --------------------------------------------------------- parseFloat ---
Digits == <<"0", "1", "2", "3", "4", "5", "6", "7", "8", "9">>

IsDigit(c) == \E d \in 1 .. 10 : Digits[d] = c

DigitVal(c) == (CHOOSE d \in 1 .. 10 : Digits[d] = c) - 1

RECURSIVE SkipWhiteSpace(_, _)
SkipWhiteSpace(s, i) ==
    IF i <= Len(s) /\ s[i] = " " THEN SkipWhiteSpace(s, i + 1) ELSE i

RECURSIVE DigitsEnd(_, _)
DigitsEnd(s, i) ==
    IF i <= Len(s) /\ IsDigit(s[i]) THEN DigitsEnd(s, i + 1) ELSE i

RECURSIVE DecimalValue(_, _, _, _)
DecimalValue(s, i, j, acc) ==
    IF i >= j THEN acc ELSE DecimalValue(s, i + 1, j, 10 * acc + DigitVal(s[i]))

\* parseFloat on strings without "." and exponent: skip leading white space,
\* take an optional sign and the longest run of digits, ignore the rest;
\* NaN when there is no digit.
parseFloat(s) ==
    LET i == SkipWhiteSpace(s, 1)
        neg == i <= Len(s) /\ s[i] = "-"
        k == IF i <= Len(s) /\ s[i] \in {"-", "+"} THEN i + 1 ELSE i
        j == DigitsEnd(s, k)
    IN  IF j = k THEN NaN
        ELSE Num((IF neg THEN -1 ELSE 1) * DecimalValue(s, k, j, 0))

\* ---------------------------------------------- computed style strings ---
RECURSIVE ToDigits(_)
ToDigits(n) ==
    IF n < 10 THEN <<Digits[n + 1]>>
    ELSE Append(ToDigits(n \div 10), Digits[(n % 10) + 1])

\* serialisation of a computed length: "<n>px"
SerializePx(n) == ToDigits(n) \o <<"p", "x">>

\* serialisation of a computed border shorthand: "<n>px solid"
SerializeBorder(n) == SerializePx(n) \o <<" ", "s", "o", "l", "i", "d">>

PxValues == {0, 2, 10}

\* what s.marginLeft / s.marginRight can read as: a length, absent, or a keyword
MarginStrings ==
    {SerializePx(n) : n \in PxValues} \cup {<<>>, <<"a", "u", "t", "o">>}

\* what s.borderLeft / s.borderRight can read as: a shorthand, or absent
BorderStrings == {SerializeBorder(n) : n \in PxValues} \cup {<<>>}

StyleRecords ==
    [marginLeft : MarginStrings, borderLeft : BorderStrings,
     borderRight : BorderStrings, marginRight : MarginStrings]

\* the styles the running program is started with: a well-formed and a malformed one
MainStyles ==
    {[marginLeft |-> SerializePx(10), borderLeft |-> SerializeBorder(2),
      borderRight |-> SerializeBorder(2), marginRight |-> SerializePx(10)],
     [marginLeft |-> <<"a", "u", "t", "o">>, borderLeft |-> <<>>,
      borderRight |-> <<>>, marginRight |-> SerializePx(0)]}

\* ------------------------------------------------------------ the DOM ---
\* the box a ResizeObserver compares for an observed element
BoxSize(t) == IF t = "body" THEN <<bodyW, bodyH>> ELSE <<rootW, rootH>>

\* document.body.scrollWidth (no overflow: the body's own width)
ScrollWidth == bodyW

\* document.documentElement.getBoundingClientRect().height
BoundingRectHeight == rootH

\* --------------------------------------------------- the two _adjust ---
\* variant of Measure_A that leaves the borders out of the width
Measure_A_NoBorder(s) ==
    [width |-> Add(Add(parseFloat(s.marginLeft), Num(ScrollWidth)),
                   parseFloat(s.marginRight)),
     height |-> Num(BoundingRectHeight)]

\* first declaration: the locals width and height
Measure_A(s) ==
    LET ml == parseFloat(s.marginLeft)
        mr == parseFloat(s.marginRight)
        bl == parseFloat(s.borderLeft)
        br == parseFloat(s.borderRight)
    IN  [width |-> Add(Add(Add(Add(ml, bl), Num(ScrollWidth)), br), mr),
         height |-> Num(BoundingRectHeight)]

\* first declaration: the forwarding call
Forward_A(w, h) == [args |-> <<w, h>>, policy |-> "A"]

\* second declaration: the locals width and height
Measure_B == [width |-> Num(rootW), height |-> Num(rootH)]

\* variant of Forward_B that passes height first
Forward_B_Swapped(w, h) == [args |-> <<Mul(h, Num(2)), Mul(w, Num(2))>>, policy |-> "B"]

\* variant of Forward_B that falls back to the first declaration's unscaled
\* forwarding when the offset width is 0
Forward_B_Fallback(w, h) ==
    IF w.v = 0 THEN Forward_A(w, h)
    ELSE [args |-> <<Mul(w, Num(2)), Mul(h, Num(2))>>, policy |-> "B"]

\* second declaration: the forwarding call
Forward_B(w, h) == [args |-> <<Mul(w, Num(2)), Mul(h, Num(2))>>, policy |-> "B"]

\* the function declarations of the script, in source order
FunctionDeclarations == <<"A", "B">>

\* instantiating the script's declarations binds a name to its last declaration
GlobalDeclarationInstantiation == FunctionDeclarations[Len(FunctionDeclarations)]

\* ------------------------------------------------- the onload handlers ---
\* variant of ObservedBy in which both handlers observe the root element
ObservedByRoot(h) == "documentElement"

\* the element each assigned handler passes to resizeObserver.observe
ObservedBy(h) == IF h = "H1" THEN "documentElement" ELSE "body"

\* new ResizeObserver(...) followed by observe(t): one observation, whose
\* last reported size starts at 0 x 0
NewObserver(t) == <<[target |-> t, last |-> <<0, 0>>]>>

\* variant of EventLoopFree for an _adjust that yields between measuring and forwarding
EventLoopFreeAsync == pending = <<>> /\ scriptpc \in {"start", "done"}

\* run-to-completion: nothing else runs inside a callback, a render pass or the script
EventLoopFree == pc = "Idle" /\ pending = <<>> /\ scriptpc \in {"start", "done"}

\* ---------------------------------------------------------------- Init ---
InitCommon ==
    /\ scriptpc = "start"
    /\ adjust = "undefined"
    /\ onload = "null"
    /\ loaded = FALSE
    /\ observers = <<>>
    /\ rootW \in Sizes /\ rootH \in Sizes
    /\ bodyW \in Sizes /\ bodyH \in Sizes
    /\ pending = <<>>
    /\ pc = "Idle"
    /\ callee = "none"
    /\ width = Num(0) /\ height = Num(0)
    /\ calls = <<>>
    /\ handled = <<>>
    /\ settled = FALSE
    /\ bodyChangedSinceLoad = FALSE
    /\ rootUnreported = FALSE

Init == InitCommon /\ bodyStyle \in MainStyles

\* ------------------------------------------------ script evaluation ---
\* function declarations are hoisted: both are instantiated before any statement
Instantiate ==
    /\ scriptpc = "start"
    /\ pc = "Idle" /\ pending = <<>>
    /\ scriptpc' = "declared"
    /\ adjust' = GlobalDeclarationInstantiation
    /\ UNCHANGED <<onload, loaded, observers, rootW, rootH, bodyW, bodyH, bodyStyle,
                   pending, pc, callee, width, height, calls, handled, settled,
                   bodyChangedSinceLoad, rootUnreported>>

\* onload = function () { ... observe(document.documentElement) }
AssignOnload1 ==
    /\ scriptpc = "declared"
    /\ scriptpc' = "assigned1"
    /\ onload' = "H1"
    /\ UNCHANGED <<adjust, loaded, observers, rootW, rootH, bodyW, bodyH, bodyStyle,
                   pending, pc, callee, width, height, calls, handled, settled,
                   bodyChangedSinceLoad, rootUnreported>>

\* variant of AssignOnload2 that invokes the function expression on the spot
\* instead of storing it
AssignOnload2Invoked ==
    /\ scriptpc = "assigned1"
    /\ scriptpc' = "done"
    /\ observers' = Append(observers, NewObserver("body"))
    /\ UNCHANGED <<adjust, onload, loaded, rootW, rootH, bodyW, bodyH, bodyStyle,
                   pending, pc, callee, width, height, calls, handled, settled,
                   bodyChangedSinceLoad, rootUnreported>>

\* variant of AssignOnload2 whose assignment misses the onload property
AssignOnload2Missed ==
    /\ scriptpc = "assigned1"
    /\ scriptpc' = "done"
    /\ UNCHANGED <<adjust, onload, loaded, observers, rootW, rootH, bodyW, bodyH,
                   bodyStyle, pending, pc, callee, width, height, calls, handled,
                   settled, bodyChangedSinceLoad, rootUnreported>>

\* onload = function () { ... observe(document.body) }
AssignOnload2 ==
    /\ scriptpc = "assigned1"
    /\ scriptpc' = "done"
    /\ onload' = "H2"
    /\ UNCHANGED <<adjust, loaded, observers, rootW, rootH, bodyW, bodyH, bodyStyle,
                   pending, pc, callee, width, height, calls, handled, settled,
                   bodyChangedSinceLoad, rootUnreported>>

\* ------------------------------------------------------- environment ---
\* the load event: runs the handler that onload holds, once
FireLoad ==
    /\ ~loaded
    /\ scriptpc = "done"
    /\ EventLoopFree
    /\ loaded' = TRUE
    /\ observers' = IF onload = "null" THEN observers
                    ELSE Append(observers, NewObserver(ObservedBy(onload)))
    /\ settled' = FALSE
    /\ UNCHANGED <<scriptpc, adjust, onload, rootW, rootH, bodyW, bodyH, bodyStyle,
                   pending, pc, callee, width, height, calls, handled,
                   bodyChangedSinceLoad, rootUnreported>>

\* the layout changes: the box of the root element or of the body takes a new
\* size (a change of both is two such steps without a render pass between)
LayoutChange ==
    /\ EventLoopFree
    /\ Len(calls) < MaxCalls
    /\ \E t \in {"documentElement", "body"}, w \in Sizes, h \in Sizes :
        /\ <<w, h>> # BoxSize(t)
        /\ IF t = "body"
           THEN /\ bodyW' = w /\ bodyH' = h
                /\ bodyChangedSinceLoad' = (bodyChangedSinceLoad \/ loaded)
                /\ UNCHANGED <<rootW, rootH, rootUnreported>>
           ELSE /\ rootW' = w /\ rootH' = h
                /\ rootUnreported' = (rootUnreported \/ loaded)
                /\ UNCHANGED <<bodyW, bodyH, bodyChangedSinceLoad>>
    /\ settled' = FALSE
    /\ UNCHANGED <<scriptpc, adjust, onload, loaded, observers, bodyStyle,
                   pending, pc, callee, width, height, calls, handled>>

\* an observation is active when the element's box differs from the last reported one
IsActive(o) == BoxSize(o.target) # o.last

HasActive(obs) == \E k \in 1 .. Len(obs) : IsActive(obs[k])

RECURSIVE ActiveObservers(_, _)
ActiveObservers(os, i) ==
    IF i > Len(os) THEN <<>>
    ELSE (IF HasActive(os[i]) THEN <<i>> ELSE <<>>) \o ActiveObservers(os, i + 1)

\* a render pass: every observer with an active observation gets one
\* notification, and the reported sizes are recorded
RenderPass ==
    /\ EventLoopFree
    /\ Len(calls) < MaxCalls
    /\ pending' = ActiveObservers(observers, 1)
    /\ observers' = [i \in 1 .. Len(observers) |->
                        [k \in 1 .. Len(observers[i]) |->
                            [observers[i][k] EXCEPT
                                !.last = BoxSize(observers[i][k].target)]]]
    /\ settled' = TRUE
    /\ UNCHANGED <<scriptpc, adjust, onload, loaded, rootW, rootH, bodyW, bodyH,
                   bodyStyle, pc, callee, width, height, calls, handled,
                   bodyChangedSinceLoad, rootUnreported>>

\* --------------------------------------------- the observer callback ---
\* entries => _adjust(): the bound _adjust starts and takes its measurement
Deliver ==
    /\ pc = "Idle"
    /\ pending # <<>>
    /\ pending' = Tail(pending)
    /\ pc' = "Measuring"
    /\ callee' = adjust
    /\ LET m == IF adjust = "B" THEN Measure_B ELSE Measure_A(bodyStyle)
       IN  width' = m.width /\ height' = m.height
    /\ handled' = Append(handled, [offsetWidth |-> rootW, offsetHeight |-> rootH])
    /\ rootUnreported' = FALSE
    /\ UNCHANGED <<scriptpc, adjust, onload, loaded, observers, rootW, rootH, bodyW,
                   bodyH, bodyStyle, calls, settled, bodyChangedSinceLoad>>

\* variant of Forward that makes the forwarding call twice
ForwardTwice ==
    /\ pc = "Measuring"
    /\ LET c == IF callee = "B" THEN Forward_B(width, height)
                ELSE Forward_A(width, height)
       IN  calls' = Append(Append(calls, c), c)
    /\ pc' = "Idle"
    /\ callee' = "none"
    /\ width' = Num(0) /\ height' = Num(0)
    /\ UNCHANGED <<scriptpc, adjust, onload, loaded, observers, rootW, rootH, bodyW,
                   bodyH, bodyStyle, pending, handled, settled, bodyChangedSinceLoad,
                   rootUnreported>>

\* _rpc_adjustWindowToContent(...): the executing _adjust forwards and returns
Forward ==
    /\ pc = "Measuring"
    /\ calls' = Append(calls, IF callee = "B" THEN Forward_B(width, height)
                              ELSE Forward_A(width, height))
    /\ pc' = "Idle"
    /\ callee' = "none"
    /\ width' = Num(0) /\ height' = Num(0)
    /\ UNCHANGED <<scriptpc, adjust, onload, loaded, observers, rootW, rootH, bodyW,
                   bodyH, bodyStyle, pending, handled, settled, bodyChangedSinceLoad,
                   rootUnreported>>

Next ==
    \/ Instantiate
    \/ AssignOnload1
    \/ AssignOnload2
    \/ FireLoad
    \/ LayoutChange
    \/ RenderPass
    \/ Deliver
    \/ Forward

Spec == Init /\ [][Next]_vars

\* ------------------- the first _adjust declaration as a pure function ---
InitA == InitCommon /\ bodyStyle \in StyleRecords

\* a direct call of the first declaration of _adjust
CallAdjustA ==
    /\ pc = "Idle"
    /\ calls = <<>>
    /\ pc' = "Measuring"
    /\ callee' = "A"
    /\ LET m == Measure_A(bodyStyle)
       IN  width' = m.width /\ height' = m.height
    /\ UNCHANGED <<scriptpc, adjust, onload, loaded, observers, rootW, rootH, bodyW,
                   bodyH, bodyStyle, pending, calls, handled, settled,
                   bodyChangedSinceLoad, rootUnreported>>

NextA ==
    \/ CallAdjustA
    \/ Forward

SpecA == InitA /\ [][NextA]_vars

\* ================================================================ claims ===

\* C1: every notification the resize observer delivers results in exactly one
\* forwarding call: a notification is consumed alone and starts one _adjust,
\* the _adjust it started makes one call, and no call is made otherwise.
C1_OneCallPerNotification ==
    [][/\ (Len(pending') < Len(pending) =>
              /\ Len(pending') = Len(pending) - 1
              /\ pc = "Idle" /\ pc' = "Measuring"
              /\ calls' = calls)
       /\ (pc = "Measuring" => Len(calls') = Len(calls) + 1 /\ pending' = pending)
       /\ (pc = "Idle" => calls' = calls)]_vars

C1_Witness == loaded /\ pc = "Idle" /\ Len(calls) = 2 /\ Len(handled) = 2

\* C2 as stated: once the first render pass after load is over and the body's
\* box has not changed since load, exactly one forwarding call has been made,
\* whatever the body's size is.
C2_Original ==
    (loaded /\ settled /\ EventLoopFree /\ ~bodyChangedSinceLoad) => Len(calls) = 1

\* C2 amended: under the same conditions exactly one forwarding call has been
\* made when the body's box is not 0 x 0, and none when it is 0 x 0; and no
\* more than one call is made before the body's box changes.
C2_Amended ==
    /\ (loaded /\ settled /\ EventLoopFree /\ ~bodyChangedSinceLoad) =>
           Len(calls) = (IF <<bodyW, bodyH>> = <<0, 0>> THEN 0 ELSE 1)
    /\ (loaded /\ ~bodyChangedSinceLoad) => Len(calls) <= 1

C2_Witness ==
    /\ loaded /\ settled /\ EventLoopFree /\ ~bodyChangedSinceLoad
    /\ <<bodyW, bodyH>> # <<0, 0>>
    /\ Len(calls) = 1

\* C3: no forwarding call is made, and no _adjust is running, in any state
\* before the load event, the states of the script's evaluation included.
C3_NoCallBeforeLoad ==
    ~loaded => (calls = <<>> /\ handled = <<>> /\ pc = "Idle" /\ pending = <<>>)

C3_Witness ==
    ~loaded /\ scriptpc = "done" /\ settled /\ <<bodyW, bodyH>> # <<0, 0>>

\* C4 as stated: after load no change of the root element's box stays
\* unreported: once a render pass has run after the change and its
\* notifications are handled, a forwarding call has measured the new box.
C4_Original == (loaded /\ settled /\ EventLoopFree) => ~rootUnreported

\* C5: every forwarding call of the second _adjust passes twice the root's
\* offset width first and twice its offset height second.
C5_TwiceOffset ==
    \A i \in 1 .. Len(calls) :
        calls[i].args = <<Num(2 * handled[i].offsetWidth),
                          Num(2 * handled[i].offsetHeight)>>

C5_Witness ==
    /\ calls # <<>>
    /\ handled[1].offsetWidth = 1 /\ handled[1].offsetHeight = 0
    /\ calls[1].args = <<Num(2), Num(0)>>

\* C6: when the four style values are serialisations of non-negative lengths,
\* the first _adjust forwards the sum of the five components as width, first,
\* and the root's bounding box height as height, second.
C6_SumOfFive ==
    \A ml \in PxValues, bl \in PxValues, br \in PxValues, mr \in PxValues :
        (/\ calls # <<>>
         /\ bodyStyle = [marginLeft |-> SerializePx(ml),
                         borderLeft |-> SerializeBorder(bl),
                         borderRight |-> SerializeBorder(br),
                         marginRight |-> SerializePx(mr)])
        => calls[1].args = <<Num(ml + bl + ScrollWidth + br + mr),
                             Num(BoundingRectHeight)>>

C6_Witness ==
    /\ calls # <<>>
    /\ bodyStyle = [marginLeft |-> SerializePx(10), borderLeft |-> SerializeBorder(2),
                    borderRight |-> SerializeBorder(2), marginRight |-> SerializePx(10)]
    /\ bodyW = 1 /\ rootH = 1
    /\ calls[1].args = <<Num(25), Num(1)>>

\* C7: all forwarding calls of an execution are computed by the same one
\* declaration of _adjust.
C7_OnePolicy ==
    \A i \in 1 .. Len(calls), j \in 1 .. Len(calls) : calls[i].policy = calls[j].policy

C7_Witness ==
    /\ loaded /\ Len(calls) >= 2
    /\ handled[1].offsetWidth = 0 /\ handled[2].offsetWidth = 1
    /\ calls[1].policy = "B" /\ calls[2].policy = "B"

\* a style value with no leading digit: absent or a keyword
Malformed(s) == s = <<>> \/ ~IsDigit(s[1])

\* C8: notifications are handled one at a time and in order: Idle goes to
\* Measuring only by taking the oldest pending notification, Measuring goes
\* straight back to Idle with the forwarding call, nothing else happens
\* while Measuring, and the call carries the measurement taken for the
\* notification being handled.
C8_OneAtATime ==
    /\ [](pc \in {"Idle", "Measuring"})
    /\ [](pc = "Idle" => Len(handled) = Len(calls))
    /\ [](pc = "Measuring" =>
             /\ Len(handled) = Len(calls) + 1
             /\ width = Num(handled[Len(handled)].offsetWidth)
             /\ height = Num(handled[Len(handled)].offsetHeight))
    /\ [][/\ (pc = "Measuring" =>
                 /\ pc' = "Idle"
                 /\ Len(calls') = Len(calls) + 1
                 /\ calls'[Len(calls')].args = <<Mul(width, Num(2)), Mul(height, Num(2))>>
                 /\ SubSeq(calls', 1, Len(calls)) = calls
                 /\ handled' = handled /\ pending' = pending)
          /\ (pc = "Idle" /\ pc' = "Measuring" =>
                 /\ pending # <<>> /\ pending' = Tail(pending)
                 /\ SubSeq(handled', 1, Len(handled)) = handled
                 /\ handled'[Len(handled')] =
                        [offsetWidth |-> rootW, offsetHeight |-> rootH])]_vars

C8_Witness ==
    /\ pc = "Measuring" /\ Len(calls) = 1
    /\ handled[1] # handled[2]

\* C9: when one of the four style values is malformed, the first _adjust
\* still makes its forwarding call, with NaN as width and the root's bounding
\* box height as height.
C9_NaNForwarded ==
    /\ []((/\ calls # <<>>
           /\ \/ Malformed(bodyStyle.marginLeft) \/ Malformed(bodyStyle.borderLeft)
              \/ Malformed(bodyStyle.borderRight) \/ Malformed(bodyStyle.marginRight))
          => (calls[1].args[1].nan /\ calls[1].args[2] = Num(BoundingRectHeight)))
    /\ [][pc = "Measuring" => Len(calls') = Len(calls) + 1]_vars

C9_Witness ==
    /\ calls # <<>>
    /\ bodyStyle.marginLeft = SerializePx(10) /\ bodyStyle.borderLeft = <<>>
    /\ bodyStyle.borderRight = SerializeBorder(2) /\ bodyStyle.marginRight = SerializePx(10)
    /\ rootH = 1
    /\ calls[1].args = <<NaN, Num(1)>>

\* C10: after load there is exactly one observer, with exactly one
\* observation, of the element the later handler names; before load there is
\* none; a render pass never produces two notifications; and after load the
\* observers and their targets never change.
C10_OneObserver ==
    /\ [](~loaded => observers = <<>>)
    /\ [](loaded => /\ Len(observers) = 1
                    /\ Len(observers[1]) = 1
                    /\ observers[1][1].target = "body")
    /\ [](Len(pending) <= 1)
    /\ [][loaded =>
             /\ Len(observers') = Len(observers)
             /\ \A i \in 1 .. Len(observers) :
                   /\ Len(observers'[i]) = Len(observers[i])
                   /\ \A k \in 1 .. Len(observers[i]) :
                         observers'[i][k].target = observers[i][k].target]_vars

C10_Witness ==
    /\ loaded /\ Len(calls) = 2 /\ bodyChangedSinceLoad
    /\ Len(observers) = 1 /\ observers[1][1].last = <<bodyW, bodyH>>

====
